---- MODULE Spec2Model ----
(***************************************************************************)
(* Model of src/src/Spreadsheet.tsx: the Spreadsheet component, its cell   *)
(* factories, processHeaderInfo, createDataCell and getCells, with the     *)
(* row store (useFieldArray) and the memoization (useCallback / useMemo)   *)
(* it sits on.                                                             *)
(*                                                                         *)
(* JavaScript values are tagged records; an object is [t |-> "object",     *)
(* o |-> f] with f a function from its own property names to values.  A    *)
(* property a cell object does not have and one it has with the value      *)
(* undefined read the same in JavaScript, so a cell is a record with all   *)
(* of its properties and Undefined for the ones not set.                   *)
(***************************************************************************)
EXTENDS Integers, Sequences, FiniteSets

(* ------------------------- JavaScript values -------------------------- *)

Undefined == [t |-> "undefined"]
Null == [t |-> "null"]
Str(s) == [t |-> "string", s |-> s]
Num(n) == [t |-> "number", n |-> n]
Bool(b) == [t |-> "boolean", b |-> b]
Obj(f) == [t |-> "object", o |-> f]
EmptyProps == [k \in {} |-> Undefined]

\* The two cell templates imported from the grid library (function values).
TextCell == [t |-> "function", name |-> "TextCell"]
NonEditableCell == [t |-> "function", name |-> "NonEditableCell"]

DISABLED_COLOR == "#EEEEEE"

\* ToBoolean: what `if (v)`, `v || w` and `!v` test.
Truthy(v) ==
    CASE v.t = "undefined" -> FALSE
      [] v.t = "null" -> FALSE
      [] v.t = "string" -> v.s # ""
      [] v.t = "number" -> v.n # 0
      [] v.t = "boolean" -> v.b
      [] OTHER -> TRUE

\* a || b
Or(a, b) == IF Truthy(a) THEN a ELSE b

Digit(d) ==
    CASE d = 0 -> "0" [] d = 1 -> "1" [] d = 2 -> "2" [] d = 3 -> "3"
      [] d = 4 -> "4" [] d = 5 -> "5" [] d = 6 -> "6" [] d = 7 -> "7"
      [] d = 8 -> "8" [] d = 9 -> "9"

RECURSIVE NatToString(_)
NatToString(n) ==
    IF n < 10 THEN Digit(n) ELSE NatToString(n \div 10) \o Digit(n % 10)

IntToString(n) == IF n < 0 THEN "-" \o NatToString(0 - n) ELSE NatToString(n)

\* String(v)
String(v) ==
    CASE v.t = "undefined" -> "undefined"
      [] v.t = "null" -> "null"
      [] v.t = "string" -> v.s
      [] v.t = "number" -> IntToString(v.n)
      [] v.t = "boolean" -> (IF v.b THEN "true" ELSE "false")
      [] v.t = "function" -> "function"
      [] OTHER -> "[object Object]"

\* v.k throws a TypeError when v is undefined or null.
Throws(v) == v.t \in {"undefined", "null"}

\* v.k for a v that is neither: a primitive has none of the properties read
\* here, an object has the ones it carries.
Get(v, k) == IF v.t = "object" /\ k \in DOMAIN v.o THEN v.o[k] ELSE Undefined

\* { ...a, ...b } on property maps
Spread(a, b) ==
    [k \in (DOMAIN a) \cup (DOMAIN b) |-> IF k \in DOMAIN b THEN b[k] ELSE a[k]]

\* ...v inside an object literal: nothing for undefined and for primitives.
PropsOf(v) == IF v.t = "object" THEN v.o ELSE EmptyProps

(* ------------------------------ rows ----------------------------------- *)

\* A row is the sequence of its <<key, value>> entries in insertion order,
\* the order Object.keys reports.
RowKeys(row) == [i \in 1..Len(row) |-> row[i][1]]

HasKey(row, k) == \E i \in 1..Len(row) : row[i][1] = k

\* row[k]
Field(row, k) ==
    IF HasKey(row, k)
    THEN row[CHOOSE i \in 1..Len(row) : row[i][1] = k][2]
    ELSE Undefined

(* --------------------------- cell factories ---------------------------- *)

DisabledStyle == Obj([backgroundColor |-> Str(DISABLED_COLOR)])

Cell(rowIndex, colIndex, template, props, rowSpan, colSpan, isFocusable, isSelectable) ==
    [rowIndex |-> rowIndex, colIndex |-> colIndex, Template |-> template,
     props |-> props, rowSpan |-> rowSpan, colSpan |-> colSpan,
     isFocusable |-> isFocusable, isSelectable |-> isSelectable]

createTextCell(text) ==
    Cell(0, 0, TextCell,
         [text |-> Str(String(text)), nonEditable |-> Bool(FALSE)],
         Undefined, Undefined, Undefined, Undefined)

createHeaderCell(value) ==
    Cell(0, 0, NonEditableCell,
         [value |-> value, nonEditable |-> Bool(TRUE), style |-> DisabledStyle],
         Undefined, Undefined, Undefined, Undefined)

createRowNumberCell(value) ==
    Cell(0, 0, NonEditableCell,
         [value |-> Str(IntToString(value)), nonEditable |-> Bool(TRUE),
          style |-> DisabledStyle],
         Undefined, Undefined, Undefined, Undefined)

(* --------------------------- utility functions ------------------------- *)

\* Object.keys(obj) with the filter left out.
getObjectKeysKeepId(obj) == RowKeys(obj)

\* Object.keys(obj).filter(key => key !== 'id')
getObjectKeys(obj) == SelectSeq(RowKeys(obj), LAMBDA key : key # "id")

\* The header policy is NoPolicy (the prop left out) or a function from
\* field names to what the callback returns for them.  Its other two
\* arguments, 0 and colIdx + 1, are kept in the record of its calls.
NoPolicy == [t |-> "undefined"]

\* What processHeaderInfo does when reading result.template throws.
TypeError == [threw |-> TRUE]

processHeaderInfo(key, colIdx, columnHeaderTitle) ==
    IF columnHeaderTitle = NoPolicy
    THEN [threw |-> FALSE, hidden |-> FALSE, key |-> key,
          cell |-> createHeaderCell(Str(key)), title |-> Str(key),
          customCell |-> Null, colSpan |-> Undefined]
    ELSE LET result == columnHeaderTitle[key] IN
         IF result = Null
         THEN [threw |-> FALSE, hidden |-> TRUE]
         ELSE IF result.t = "string"
         THEN [threw |-> FALSE, hidden |-> FALSE, key |-> key,
               cell |-> createHeaderCell(result), title |-> result,
               customCell |-> Null, colSpan |-> Undefined]
         ELSE IF Throws(result)
         THEN TypeError
         ELSE LET template == Or(Get(result, "template"), NonEditableCell)
                  title == Or(Get(result, "title"), Str(key))
                  props == IF Truthy(Get(result, "props"))
                           THEN PropsOf(Get(result, "props"))
                           ELSE [value |-> title, nonEditable |-> Bool(TRUE),
                                 style |-> DisabledStyle]
              IN [threw |-> FALSE, hidden |-> FALSE, key |-> key,
                  cell |-> Cell(0, colIdx + 1, template, props,
                                Get(result, "rowSpan"), Get(result, "colSpan"),
                                Get(result, "isFocusable"), Get(result, "isSelectable")),
                  title |-> title, customCell |-> result,
                  colSpan |-> Get(result, "colSpan")]

\* A createDataCell that stringifies the value without the `|| ''`.
createDataCellNoFallback(value, rowIdx, colIdx, customCell) ==
    LET baseCell == createTextCell(Str(String(value))) IN
    IF Truthy(customCell)
    THEN Cell(rowIdx, colIdx, Or(Get(customCell, "template"), TextCell),
              Spread(baseCell.props, PropsOf(Get(customCell, "props"))),
              Get(customCell, "rowSpan"), Get(customCell, "colSpan"),
              Get(customCell, "isFocusable"), Get(customCell, "isSelectable"))
    ELSE [baseCell EXCEPT !.rowIndex = rowIdx, !.colIndex = colIdx]

createDataCell(value, rowIdx, colIdx, customCell) ==
    LET baseCell == createTextCell(Str(String(Or(value, Str(""))))) IN
    IF Truthy(customCell)
    THEN Cell(rowIdx, colIdx, Or(Get(customCell, "template"), TextCell),
              Spread(baseCell.props, PropsOf(Get(customCell, "props"))),
              Get(customCell, "rowSpan"), Get(customCell, "colSpan"),
              Get(customCell, "isFocusable"), Get(customCell, "isSelectable"))
    ELSE [baseCell EXCEPT !.rowIndex = rowIdx, !.colIndex = colIdx]

(* ------------------------------ getCells ------------------------------- *)

\* A map that gives a column the policy hides the default header instead.
MappedInfoNullAsDefault(allKeys, columnHeaderTitle) ==
    [i \in 1..Len(allKeys) |->
        processHeaderInfo(allKeys[i], i - 1,
            IF columnHeaderTitle = NoPolicy THEN NoPolicy
            ELSE [k \in DOMAIN columnHeaderTitle |->
                    IF columnHeaderTitle[k] = Null THEN Str(k) ELSE columnHeaderTitle[k]])]

\* allKeys.map((key, colIdx) => processHeaderInfo(key, colIdx, columnHeaderTitle))
MappedInfo(allKeys, columnHeaderTitle) ==
    [i \in 1..Len(allKeys) |-> processHeaderInfo(allKeys[i], i - 1, columnHeaderTitle)]

\* .filter(info => info !== null)
FilterInfo(mapped) == SelectSeq(mapped, LAMBDA info : ~info.hidden)

\* info.colSpan || 1
SpanOf(info) == Or(info.colSpan, Num(1)).n

\* currentColIndex when the forEach reaches headerInfo[j]: it starts at 1 and
\* each earlier entry has added its span.
RECURSIVE ColIndexAt(_, _)
ColIndexAt(headerInfo, j) ==
    IF j = 1 THEN 1 ELSE ColIndexAt(headerInfo, j - 1) + SpanOf(headerInfo[j - 1])

\* columnPositions, the Map from a shown key to its column.
columnPositions(headerInfo) ==
    [k \in {headerInfo[j].key : j \in 1..Len(headerInfo)} |->
        ColIndexAt(headerInfo, CHOOSE j \in 1..Len(headerInfo) : headerInfo[j].key = k)]

rowNumberHeaderCell == [createHeaderCell(Str("#")) EXCEPT !.rowIndex = 0, !.colIndex = 0]

rowNumberCells(data) ==
    [idx \in 1..Len(data) |->
        [createRowNumberCell(idx) EXCEPT !.rowIndex = idx, !.colIndex = 0]]

headerCells(headerInfo) ==
    [j \in 1..Len(headerInfo) |->
        [headerInfo[j].cell EXCEPT !.rowIndex = 0,
                                   !.colIndex = ColIndexAt(headerInfo, j),
                                   !.Template = Or(headerInfo[j].cell.Template, NonEditableCell)]]

\* data.flatMap((item, rowIdx) => headerInfo.map(info => createDataCell(...)))
dataCells(data, headerInfo) ==
    LET H == Len(headerInfo)
        pos == columnPositions(headerInfo)
    IN [n \in 1..(Len(data) * H) |->
          LET item == data[((n - 1) \div H) + 1]
              info == headerInfo[((n - 1) % H) + 1]
          IN createDataCell(Field(item, info.key), ((n - 1) \div H) + 1,
                            pos[info.key], info.customCell)]

\* The calls of the header policy one pass makes, as <<key, rowIndex, colIndex>>:
\* one per key, in order, up to and including the call whose result makes
\* processHeaderInfo throw.
PolicyCalls(allKeys, columnHeaderTitle, mapped) ==
    IF columnHeaderTitle = NoPolicy THEN <<>>
    ELSE LET last == IF \E i \in 1..Len(mapped) : mapped[i].threw
                     THEN CHOOSE i \in 1..Len(mapped) :
                            /\ mapped[i].threw
                            /\ \A h \in 1..(i - 1) : ~mapped[h].threw
                     ELSE Len(mapped)
         IN [i \in 1..last |-> <<allKeys[i], 0, i>>]

\* getCells() past its first line, for a row sequence that is not empty.
assembleCells(data, columnHeaderTitle) ==
    LET firstItem == data[1]
        allKeys == getObjectKeys(firstItem)
        mapped == MappedInfo(allKeys, columnHeaderTitle)
        calls == PolicyCalls(allKeys, columnHeaderTitle, mapped)
    IN IF \E i \in 1..Len(mapped) : mapped[i].threw
       THEN [threw |-> TRUE, cells |-> << >>, calls |-> calls]
       ELSE LET headerInfo == FilterInfo(mapped)
            IN [threw |-> FALSE,
                cells |-> <<rowNumberHeaderCell>> \o rowNumberCells(data)
                            \o headerCells(headerInfo)
                            \o dataCells(data, headerInfo),
                calls |-> calls]

\* A getCells that emits the corner cell before looking at the rows.
getCellsCornerFirst(data, columnHeaderTitle) ==
    IF Len(data) = 0
    THEN [threw |-> FALSE, cells |-> <<rowNumberHeaderCell>>, calls |-> << >>]
    ELSE assembleCells(data, columnHeaderTitle)

\* getCells(): threw tells whether the pass ended in the TypeError, cells is
\* the list it returned, calls the header policy calls it made.
getCells(data, columnHeaderTitle) ==
    IF Len(data) = 0
    THEN [threw |-> FALSE, cells |-> << >>, calls |-> << >>]
    ELSE assembleCells(data, columnHeaderTitle)

(* ------------------------ the Spreadsheet component -------------------- *)

VARIABLES
    fields,             \* the row store's live row sequence (useFieldArray)
    fieldsRef,          \* the identity of that array object
    columnHeaderTitle,  \* the header policy prop
    policyRef,          \* the identity of that function object
    layout,             \* height, width and the sticky* props as passed
    memoDeps,           \* the dependencies the cached cell list was built for
    memoizedCells,      \* the cached result of getCells
    policyCalls,        \* the header policy calls of the last render pass
    grid,               \* what the last render pass handed to the renderer
    pending,            \* a render pass is due
    status,             \* "mounted", or "crashed" once a pass has thrown
    lastEvent,          \* the last signal of the renderer
    storeCalls          \* the row store calls the component made on it

vars == <<fields, fieldsRef, columnHeaderTitle, policyRef, layout, memoDeps,
          memoizedCells, policyCalls, grid, pending, status, lastEvent, storeCalls>>

(* ------------------------------- inputs -------------------------------- *)

MaxRows == 2
MaxColSpan == 2

\* name, city, age as in App.tsx
RowJohn == << <<"name", Str("John")>>, <<"city", Str("NY")>>, <<"age", Num(28)>> >>
\* its own id first, another key order, falsy values, no city
RowFalsy == << <<"id", Str("x")>>, <<"age", Num(0)>>, <<"name", Str("")>> >>
\* a null value, no age
RowCity == << <<"city", Str("LA")>>, <<"name", Null>> >>
RowEmpty == << >>

SampleRows == {RowJohn, RowFalsy, RowCity, RowEmpty}
StoreRows == {RowJohn, RowCity}

Keys == {"id", "name", "city", "age"}

RECURSIVE SeqsUpTo(_, _)
SeqsUpTo(S, n) ==
    IF n = 0 THEN {<< >>}
    ELSE LET shorter == SeqsUpTo(S, n - 1)
         IN shorter \cup {Append(q, x) : q \in {t \in shorter : Len(t) = n - 1}, x \in S}

\* What a header policy may return for a field: null, undefined, a string,
\* a number, and CustomCell objects with and without colSpan, template, props.
ColSpans == {0 - 1} \cup (0..MaxColSpan)

Decisions ==
    {Null, Undefined, Str("Name"), Num(5)}
    \cup {Obj([title |-> Str("City"), colSpan |-> Num(c)]) : c \in ColSpans}
    \cup {Obj([title |-> Str("")]),
          Obj([template |-> TextCell, props |-> Obj([text |-> Str("Hdr")])])}

\* 'id' never reaches the policy; what it would return for it is fixed.
Policies == {p \in [Keys -> Decisions \cup {Str("id")}] :
                /\ p["id"] = Str("id")
                /\ \A k \in Keys \ {"id"} : p[k] \in Decisions}

\* The callback App.tsx passes.
AppPolicy ==
    [k \in Keys |->
        IF k = "name" THEN Str("Name")
        ELSE IF k = "city" THEN Obj([title |-> Str("City"), colSpan |-> Num(2)])
        ELSE Str(k)]

HidePolicy == [AppPolicy EXCEPT !["city"] = Null]
StorePolicies == {NoPolicy, AppPolicy, HidePolicy}

LayoutOmitted ==
    [height |-> Undefined, width |-> Undefined, stickyTopRows |-> Undefined,
     stickyBottomRows |-> Undefined, stickyLeftColumns |-> Undefined,
     stickyRightColumns |-> Undefined]

LayoutSupplied ==
    [height |-> Str("600px"), width |-> Str("50%"), stickyTopRows |-> Num(2),
     stickyBottomRows |-> Num(1), stickyLeftColumns |-> Num(0),
     stickyRightColumns |-> Num(1)]

LayoutNames == DOMAIN LayoutOmitted

\* The options in `given` supplied, the others left out.
LayoutWith(given) ==
    [n \in LayoutNames |-> IF n \in given THEN LayoutSupplied[n] ELSE LayoutOmitted[n]]

\* Every way of supplying some of the options and leaving out the others.
Layouts == {LayoutWith(given) : given \in SUBSET LayoutNames}

(* ------------------------------ row store ------------------------------ *)

\* useFieldArray keeps each row with a generated 'id' property: { ...row, id }.
\* The generated value plays no part here, so one value stands for all.
WithId(row) ==
    IF HasKey(row, "id")
    THEN [i \in 1..Len(row) |-> IF row[i][1] = "id" THEN <<"id", Str("uuid")>> ELSE row[i]]
    ELSE Append(row, <<"id", Str("uuid")>>)

WithIds(rows) == [i \in 1..Len(rows) |-> WithId(rows[i])]

\* Object identities: only whether the current one equals the one the cache
\* was built for is ever asked, so three suffice for a fresh one to exist.
RefIds == {"r0", "r1", "r2"}
FreshRef(current, cached) == CHOOSE r \in RefIds : r \notin {current, cached}

\* The identity of the policy prop: undefined is one value.
FreshPolicyRef(policy, current, cached) ==
    IF policy = NoPolicy THEN "undefined" ELSE FreshRef(current, cached)

NotRendered == [t |-> "none"]
NoEvent == [kind |-> "none"]

(* ------------------------------ render pass ---------------------------- *)

\* A default written `v || d`, which also replaces a supplied 0 or "".
DefaultWhenFalsy(v, d) == Or(v, d)

\* A default parameter value applies when the prop is undefined.
Default(v, d) == IF v = Undefined THEN d ELSE v

\* The destructured props with their defaults.
height == Default(layout.height, Str("400px"))
width == Default(layout.width, Str("100%"))
stickyTopRows == Default(layout.stickyTopRows, Num(1))
stickyBottomRows == Default(layout.stickyBottomRows, Num(0))
stickyLeftColumns == Default(layout.stickyLeftColumns, Num(1))
stickyRightColumns == Default(layout.stickyRightColumns, Num(0))

\* The JSX returned: the container's style and the ReactGrid props.
Rendered(cells) ==
    [style |-> [height |-> height, width |-> width],
     cells |-> cells,
     stickyTopRows |-> stickyTopRows,
     stickyBottomRows |-> stickyBottomRows,
     stickyLeftColumns |-> stickyLeftColumns,
     stickyRightColumns |-> stickyRightColumns]

\* A dependency list that leaves out columnHeaderTitle.
DepsChangedDataOnly(deps, dataRef, polRef) == deps[1] # dataRef

\* useCallback(..., [data, columnHeaderTitle]) makes a new getCells, and
\* useMemo(..., [getCells]) recomputes, when either identity has changed.
DepsChanged(deps, dataRef, polRef) == deps # <<dataRef, polRef>>

Render ==
    /\ status = "mounted"
    /\ pending
    /\ LET changed == DepsChanged(memoDeps, fieldsRef, policyRef)
           result == getCells(fields, columnHeaderTitle)
       IN IF changed /\ result.threw
          THEN /\ status' = "crashed"
               /\ policyCalls' = result.calls
               /\ grid' = NotRendered
               /\ UNCHANGED <<memoDeps, memoizedCells>>
          ELSE /\ memoizedCells' = IF changed THEN result.cells ELSE memoizedCells
               /\ memoDeps' = <<fieldsRef, policyRef>>
               /\ policyCalls' = IF changed THEN result.calls ELSE << >>
               /\ grid' = Rendered(memoizedCells')
               /\ status' = status
    /\ pending' = FALSE
    /\ lastEvent' = NoEvent
    /\ storeCalls' = << >>
    /\ UNCHANGED <<fields, fieldsRef, columnHeaderTitle, policyRef, layout>>

(* --------------------- what the host does to the store ----------------- *)

StoreChanged(newFields) ==
    /\ fields' = newFields
    /\ fieldsRef' = FreshRef(fieldsRef, memoDeps[1])
    /\ pending' = TRUE
    /\ lastEvent' = NoEvent
    /\ storeCalls' = << >>
    /\ UNCHANGED <<columnHeaderTitle, policyRef, layout, memoDeps, memoizedCells,
                   policyCalls, grid, status>>

append(row) ==
    /\ status = "mounted"
    /\ Len(fields) < MaxRows
    /\ StoreChanged(Append(fields, WithId(row)))

remove(index) ==
    /\ status = "mounted"
    /\ index \in 1..Len(fields)
    /\ StoreChanged([i \in 1..(Len(fields) - 1) |->
                        IF i < index THEN fields[i] ELSE fields[i + 1]])

update(index, row) ==
    /\ status = "mounted"
    /\ index \in 1..Len(fields)
    /\ StoreChanged([fields EXCEPT ![index] = WithId(row)])

\* The parent renders again with another callback (an inline arrow function
\* is a new object at every parent render, whatever it computes).
SetPolicy(policy) ==
    /\ status = "mounted"
    /\ ~(policy = NoPolicy /\ columnHeaderTitle = NoPolicy)
    /\ columnHeaderTitle' = policy
    /\ policyRef' = FreshPolicyRef(policy, policyRef, memoDeps[2])
    /\ pending' = TRUE
    /\ lastEvent' = NoEvent
    /\ storeCalls' = << >>
    /\ UNCHANGED <<fields, fieldsRef, layout, memoDeps, memoizedCells,
                   policyCalls, grid, status>>

\* The parent renders again with the same props.
Rerender ==
    /\ status = "mounted"
    /\ ~pending
    /\ pending' = TRUE
    /\ lastEvent' = NoEvent
    /\ storeCalls' = << >>
    /\ UNCHANGED <<fields, fieldsRef, columnHeaderTitle, policyRef, layout,
                   memoDeps, memoizedCells, policyCalls, grid, status>>

(* ------------------------- what the renderer does ---------------------- *)

EditTexts == {"Z"}

\* A cell of the grid the user can type into.
Editable(cell) ==
    /\ cell.rowIndex >= 1
    /\ cell.Template = TextCell
    /\ ~Truthy(Get(Obj(cell.props), "nonEditable"))

\* The row store calls the component makes when the renderer reports the new
\* text of a cell: the cells it builds carry no change handler and the update
\* it takes from useFieldArray is never called.
onTextChanged(cell, text) == << >>

\* The user edits the grid on screen, between two passes.
CellChanged(n, text) ==
    /\ status = "mounted"
    /\ ~pending
    /\ grid # NotRendered
    /\ n \in 1..Len(grid.cells)
    /\ Editable(grid.cells[n])
    /\ lastEvent' = [kind |-> "edit", rowIndex |-> grid.cells[n].rowIndex,
                     colIndex |-> grid.cells[n].colIndex, text |-> text]
    /\ storeCalls' = onTextChanged(grid.cells[n], text)
    /\ UNCHANGED <<fields, fieldsRef, columnHeaderTitle, policyRef, layout,
                   memoDeps, memoizedCells, policyCalls, grid, pending, status>>

(* ---------------------------- specifications --------------------------- *)

Mount(data, policy, options) ==
    /\ fields = WithIds(data)
    /\ fieldsRef = "r0"
    /\ columnHeaderTitle = policy
    /\ policyRef = IF policy = NoPolicy THEN "undefined" ELSE "r0"
    /\ layout = options
    /\ memoDeps = <<"none", "none">>
    /\ memoizedCells = << >>
    /\ policyCalls = << >>
    /\ grid = NotRendered
    /\ pending = TRUE
    /\ status = "mounted"
    /\ lastEvent = NoEvent
    /\ storeCalls = << >>

\* The component over its life: mounted with the data of App.tsx or none.
Init ==
    \E data \in {<< >>, <<RowJohn>>}, policy \in StorePolicies :
        Mount(data, policy, LayoutOmitted)

Next ==
    \/ Render
    \/ \E row \in StoreRows : append(row)
    \/ \E index \in 1..MaxRows : remove(index)
    \/ \E index \in 1..MaxRows, row \in StoreRows : update(index, row)
    \/ \E policy \in StorePolicies : SetPolicy(policy)
    \/ Rerender
    \/ \E n \in 1..Len(memoizedCells), text \in EditTexts : CellChanged(n, text)

Spec == Init /\ [][Next]_vars

\* getCells on every input: the first render pass of a component mounted with
\* any rows and any header policy.
InitCells ==
    \E data \in SeqsUpTo(SampleRows, MaxRows), policy \in Policies \cup {NoPolicy} :
        Mount(data, policy, LayoutOmitted)

NextCells == Render

SpecCells == InitCells /\ [][NextCells]_vars

\* The layout props: a component mounted with any of the options supplied or
\* left out, rendered and rendered again.
InitLayout ==
    \E data \in {<< >>, <<RowJohn>>}, policy \in StorePolicies, options \in Layouts :
        Mount(data, policy, options)

NextLayout == Render \/ Rerender

SpecLayout == InitLayout /\ [][NextLayout]_vars

(* ------------------------------- claims -------------------------------- *)

\* A render pass has completed and nothing has changed since.
PassDone == status = "mounted" /\ ~pending /\ grid # NotRendered

N == Len(fields)

\* The keys of the first row other than 'id', in the row's own order.
DiscoveredKeys ==
    IF N = 0 THEN << >>
    ELSE SelectSeq([i \in 1..Len(fields[1]) |-> fields[1][i][1]], LAMBDA k : k # "id")

K == Len(DiscoveredKeys)

\* What the header policy decides for key k.
Decision(k) == IF columnHeaderTitle = NoPolicy THEN Str(k) ELSE columnHeaderTitle[k]

\* The keys the policy does not hide.
ShownKeys == SelectSeq(DiscoveredKeys, LAMBDA k : Decision(k) # Null)

H == Len(ShownKeys)

CountCells(cells, P(_)) == Cardinality({n \in 1..Len(cells) : P(cells[n])})

NoHiddenNoSpan ==
    \A j \in 1..K :
        /\ Decision(DiscoveredKeys[j]) # Null
        /\ Get(Decision(DiscoveredKeys[j]), "colSpan") = Undefined

\* C1: with N >= 1 rows, K keys other than 'id' in the first row, and a header
\* policy (or none) that hides no column and sets no span, the list getCells
\* returned has 1 + N + K + N*K cells: the corner at (0,0), N row-number cells
\* in column 0, K header cells in row 0 and N*K data cells.
C1_CellCount ==
    (PassDone /\ N >= 1 /\ NoHiddenNoSpan) =>
        /\ Len(memoizedCells) = 1 + N + K + N * K
        /\ CountCells(memoizedCells, LAMBDA c : c.rowIndex = 0 /\ c.colIndex = 0) = 1
        /\ CountCells(memoizedCells, LAMBDA c : c.rowIndex >= 1 /\ c.colIndex = 0) = N
        /\ CountCells(memoizedCells, LAMBDA c : c.rowIndex = 0 /\ c.colIndex >= 1) = K
        /\ CountCells(memoizedCells, LAMBDA c : c.rowIndex >= 1 /\ c.colIndex >= 1) = N * K

C1_Witness ==
    /\ PassDone /\ NoHiddenNoSpan
    /\ columnHeaderTitle # NoPolicy
    /\ N = 2 /\ K = 3
    /\ HasKey(fields[1], "id")
    /\ Len(memoizedCells) = 12

\* C7: for an empty row sequence getCells returns the empty list, whatever the
\* header policy is, and makes no call of the header policy (and so cannot
\* throw, even under a policy that returns undefined).
C7_EmptyRows ==
    (N = 0 /\ ~pending) =>
        /\ status = "mounted"
        /\ memoizedCells = << >>
        /\ grid # NotRendered /\ grid.cells = << >>
        /\ policyCalls = << >>

C7_Witness ==
    /\ N = 0 /\ PassDone
    /\ columnHeaderTitle # NoPolicy
    /\ \E k \in Keys : columnHeaderTitle[k] = Undefined
    /\ memoizedCells = << >>

\* The list getCells returned is the corner, the N row-number cells, one
\* header cell per shown key and one data cell per row and shown key.
HeaderAt(j) == memoizedCells[1 + N + j]
DataAt(i, j) == memoizedCells[1 + N + H + (i - 1) * H + j]

\* The column getCells gives key k under the header policy `policy`.
ColumnUnder(policy, k) ==
    columnPositions(FilterInfo(MappedInfo(DiscoveredKeys, policy)))[k]

\* The policy that shows field f as a plain column one slot wide.
ShownAsDefault(f) == [columnHeaderTitle EXCEPT ![f] = Str(f)]

IndexOfKey(k) == CHOOSE i \in 1..K : DiscoveredKeys[i] = k

\* C2: when the policy hides field F, the list holds no header cell and no
\* data cell for F (its cells are exactly those of the corner, the rows and
\* the shown keys), and every shown column after F sits exactly one column
\* lower than with F shown as a span-1 column; the columns before F stay.
C2_HiddenColumn ==
    (PassDone /\ N >= 1) =>
        \A f \in 1..K :
            Decision(DiscoveredKeys[f]) = Null =>
                /\ Len(memoizedCells) = 1 + N + H + N * H
                /\ \A j \in 1..H : ShownKeys[j] # DiscoveredKeys[f]
                /\ \A j \in 1..H :
                     LET k == ShownKeys[j]
                         shift == IF IndexOfKey(k) > f THEN 1 ELSE 0
                         col == ColumnUnder(ShownAsDefault(DiscoveredKeys[f]), k) - shift
                     IN /\ HeaderAt(j).rowIndex = 0
                        /\ HeaderAt(j).colIndex = col
                        /\ \A i \in 1..N : /\ DataAt(i, j).rowIndex = i
                                           /\ DataAt(i, j).colIndex = col

C2_Witness ==
    /\ PassDone /\ N = 2 /\ K = 3 /\ H = 2
    /\ Decision(DiscoveredKeys[1]) = Null
    /\ Get(Decision(DiscoveredKeys[2]), "colSpan") = Num(2)
    /\ HeaderAt(1).colIndex = 1
    /\ HeaderAt(2).colIndex = 3
    /\ Len(memoizedCells) = 9

\* The span width of the j-th shown column: its colSpan, 1 when it gives none.
SpanWidth(j) ==
    LET span == Get(Decision(ShownKeys[j]), "colSpan")
    IN IF span = Undefined THEN 1 ELSE span.n

\* C3: the first shown column is column 1, the column index strictly increases
\* from each shown column to the next, and each next index is the current one
\* plus the current column's span width, for every colSpan a policy can give.
C3_ColumnPlan ==
    (PassDone /\ N >= 1 /\ H >= 1) =>
        /\ HeaderAt(1).colIndex = 1
        /\ \A j \in 1..(H - 1) :
             /\ HeaderAt(j + 1).colIndex > HeaderAt(j).colIndex
             /\ HeaderAt(j + 1).colIndex = HeaderAt(j).colIndex + SpanWidth(j)

\* An unrecognized result: not null, not a string, not an object.
Unrecognized(d) == d.t \notin {"null", "string", "object"}

\* The policy with the field name as the title wherever it returns something
\* unrecognized.
AsDefault ==
    [k \in DOMAIN columnHeaderTitle |->
        IF Unrecognized(columnHeaderTitle[k]) THEN Str(k) ELSE columnHeaderTitle[k]]

\* C4: when the policy returns something unrecognized for a field, getCells
\* does not throw and the list is the one it returns with that column as a
\* Default decision titled with the field name.
C4_UnrecognizedAsDefault ==
    (~pending /\ N >= 1 /\ columnHeaderTitle # NoPolicy
       /\ \E j \in 1..K : Unrecognized(Decision(DiscoveredKeys[j]))) =>
        /\ status = "mounted"
        /\ memoizedCells = getCells(fields, AsDefault).cells

\* C10: no two cells of the list have the same (rowIndex, colIndex).
C10_DistinctCoordinates ==
    PassDone =>
        \A m, n \in 1..Len(memoizedCells) :
            m # n => <<memoizedCells[m].rowIndex, memoizedCells[m].colIndex>>
                       # <<memoizedCells[n].rowIndex, memoizedCells[n].colIndex>>

\* The text a data cell shows.
DisplayedText(cell) == Get(Obj(cell.props), "text")

\* The string form of the row's value at key k, empty when the value is falsy
\* or the row has no such key.
ExpectedText(row, k) ==
    LET present == \E e \in 1..Len(row) : row[e][1] = k
        value == row[CHOOSE e \in 1..Len(row) : row[e][1] = k][2]
    IN IF ~present THEN Str("")
       ELSE IF ~Truthy(value) THEN Str("")
       ELSE Str(String(value))

\* The text property the column's CustomCell props carry, if any.
CustomText(k) == Get(Get(Decision(k), "props"), "text")

\* C6 as stated: for every row i and every shown column, the list holds one
\* data cell at (i+1, c), c the column of the header, showing the string form
\* of the row's value, or the empty string when it is falsy or missing.
C6_DataCellText ==
    (PassDone /\ N >= 1) =>
        /\ Len(memoizedCells) = 1 + N + H + N * H
        /\ \A i \in 1..N, j \in 1..H :
             /\ DataAt(i, j).rowIndex = i
             /\ DataAt(i, j).colIndex = HeaderAt(j).colIndex
             /\ DisplayedText(DataAt(i, j)) = ExpectedText(fields[i], ShownKeys[j])

\* C6 as amended: the same, except that in a column whose CustomCell props
\* carry a text of their own every data cell shows that text instead.
C6_DataCellTextUnlessCustom ==
    (PassDone /\ N >= 1) =>
        /\ Len(memoizedCells) = 1 + N + H + N * H
        /\ \A i \in 1..N, j \in 1..H :
             /\ DataAt(i, j).rowIndex = i
             /\ DataAt(i, j).colIndex = HeaderAt(j).colIndex
             /\ DisplayedText(DataAt(i, j)) =
                  IF CustomText(ShownKeys[j]) # Undefined
                  THEN CustomText(ShownKeys[j])
                  ELSE ExpectedText(fields[i], ShownKeys[j])

C6_Witness ==
    /\ PassDone /\ N = 2 /\ H = 3
    /\ CustomText(ShownKeys[1]) = Str("Hdr")
    /\ DisplayedText(DataAt(1, 1)) = Str("Hdr")
    /\ DisplayedText(DataAt(1, 3)) = Str("28")
    /\ ~HasKey(fields[2], ShownKeys[3])
    /\ DisplayedText(DataAt(2, 3)) = Str("")
    /\ Field(fields[2], ShownKeys[2]) = Str("LA")
    /\ DisplayedText(DataAt(2, 2)) = Str("LA")

\* C5: when the renderer reports the changed text of a data cell of the row
\* with ordinal r, the component makes exactly one call on the row store, an
\* update with ordinal r and the updated row, and no append and no remove.
C5_EditUpdatesStore ==
    lastEvent.kind = "edit" =>
        /\ Len(storeCalls) = 1
        /\ storeCalls[1].op = "update"
        /\ storeCalls[1].index = lastEvent.rowIndex
        /\ "row" \in DOMAIN storeCalls[1]

\* What reached the renderer for each layout option.
Reached ==
    [height |-> grid.style.height, width |-> grid.style.width,
     stickyTopRows |-> grid.stickyTopRows,
     stickyBottomRows |-> grid.stickyBottomRows,
     stickyLeftColumns |-> grid.stickyLeftColumns,
     stickyRightColumns |-> grid.stickyRightColumns]

\* The defaults as documented: stickyTopRows 1 and 0 for the other three.
DocumentedDefaults ==
    [height |-> Str("400px"), width |-> Str("100%"), stickyTopRows |-> Num(1),
     stickyBottomRows |-> Num(0), stickyLeftColumns |-> Num(0),
     stickyRightColumns |-> Num(0)]

\* C8 as stated: an option left out reaches the renderer with its documented
\* default, an option supplied reaches it unchanged.
C8_LayoutDefaults ==
    PassDone =>
        \A o \in LayoutNames :
            Reached[o] = IF layout[o] = Undefined THEN DocumentedDefaults[o] ELSE layout[o]

\* C8 as amended: the same with 1, not 0, as the default of stickyLeftColumns.
C8_LayoutDefaultsLeftOne ==
    PassDone =>
        \A o \in LayoutNames :
            Reached[o] = IF layout[o] # Undefined THEN layout[o]
                         ELSE IF o = "stickyLeftColumns" THEN Num(1)
                         ELSE DocumentedDefaults[o]

C8_Witness ==
    /\ PassDone
    /\ layout.stickyLeftColumns = Undefined /\ grid.stickyLeftColumns = Num(1)
    /\ layout.stickyTopRows = Undefined /\ grid.stickyTopRows = Num(1)
    /\ layout.height = Undefined /\ grid.style.height = Str("400px")
    /\ layout.stickyBottomRows = Num(1) /\ grid.stickyBottomRows = Num(1)
    /\ layout.width = Str("50%") /\ grid.style.width = Str("50%")

\* C9: at the end of every render pass, whatever row store operations and
\* policy replacements came before it, the memoized list handed to the
\* renderer is what getCells computes from the store's current rows and the
\* current policy, and the cache is keyed on their current identities.
C9_MemoNeverStale ==
    PassDone =>
        /\ memoizedCells = getCells(fields, columnHeaderTitle).cells
        /\ grid.cells = memoizedCells
        /\ memoDeps = <<fieldsRef, policyRef>>

\* A pass that reused the cache, after the store grew and the policy changed.
C9_Witness ==
    /\ PassDone /\ N = 2
    /\ columnHeaderTitle = HidePolicy
    /\ fields[1] = WithId(RowCity)
    /\ policyCalls = << >>
    /\ Len(memoizedCells) = 6
    /\ memoizedCells = getCells(fields, columnHeaderTitle).cells

====
